---- MODULE Spec2Model ----
(***************************************************************************)
(* A model of nvelope: conversions between Python domain values and JSON   *)
(* values, the record (Obj, ObjWithAliases) and sequence (Arr) compounds,  *)
(* the path-carrying NvelopeError, and the derived JSON schemas.           *)
(***************************************************************************)
EXTENDS Integers, Sequences, FiniteSets, TLC

VARIABLES
    trace,   \* the calls a client made so far, each with its argument and outcome
    store,   \* the "type" lists held by the schema dicts stored in conversions
    tpc,     \* per thread: where it is in its schema() call
    ttarget, \* per thread: the conversion or model type whose schema() it calls
    tret,    \* per thread: the value schema() returned (lists held by reference)
    tseen    \* per thread: what the caller read from each returned schema

vars == <<trace, store, tpc, ttarget, tret, tseen>>

-----------------------------------------------------------------------------
(* Bounds of the model.                                                    *)

MaxSteps == 2
MaxLen == 2
MaxInt == 2
MaxCalls == 2

-----------------------------------------------------------------------------
(* Python values.  JSON values are the Python values None, bool, int,      *)
(* float, str, list and dict (JSON = Union[Dict, List, int, str, float,    *)
(* bool, None]); domain values add model instances and Jst / Miss.  A      *)
(* float is held in tenths (x10), so 1.0 and 1.5 are both representable.   *)

None == [k |-> "none"]
PyBool(b) == [k |-> "bool", b |-> b]
PyInt(n) == [k |-> "int", n |-> n]
PyFloat(x10) == [k |-> "float", x10 |-> x10]
PyStr(s) == [k |-> "str", s |-> s]
PyList(items) == [k |-> "list", items |-> items]
PyDict(m) == [k |-> "dict", m |-> m]

EmptyMap == [z \in {} |-> None]
Put(m, key, v) == [z \in DOMAIN m \cup {key} |-> IF z = key THEN v ELSE m[z]]

\* a dataclass instance of model type cls with attribute values f, an Arr instance
Inst(cls, f) == [k |-> "inst", cls |-> cls, f |-> f]
ArrInst(cls, items) == [k |-> "arr", cls |-> cls, items |-> items]

Jst(v) == [k |-> "Jst", val |-> v]
Miss == [k |-> "Miss"]

\* isinstance(v, t) for the builtin types the conversions test; bool is a subclass of int
isinstance(v, t) ==
    CASE t = "str" -> v.k = "str"
      [] t = "int" -> v.k \in {"int", "bool"}
      [] t = "float" -> v.k = "float"
      [] t = "bool" -> v.k = "bool"
      [] t = "list" -> v.k = "list"
      [] t = "dict" -> v.k = "dict"
      [] t = "MaybeMissing" -> v.k \in {"Jst", "Miss"}
      [] OTHER -> FALSE

-----------------------------------------------------------------------------
(* Outcomes of a call: a returned value or a raised exception.  log is the *)
(* sequence of Conversion.to_json / from_json invocations the call made.   *)

Ok(v, log) == [ok |-> TRUE, v |-> v, log |-> log]
Raise(exc, path, log) == [ok |-> FALSE, exc |-> exc, path |-> path, args |-> <<>>, log |-> log]
Entry(d, c, a) == [d |-> d, c |-> c, a |-> a]

\* NvelopeError(path, *args): a compound re-raising with the segment in front
NvelopeError(path, log) == Raise("NvelopeError", path, log)

RECURSIVE JoinArgs(_)
JoinArgs(args) ==
    IF Len(args) = 0 THEN ""
    ELSE IF Len(args) = 1 THEN args[1]
    ELSE args[1] \o "," \o JoinArgs(Tail(args))

\* NvelopeError.__str__; repr() of a path puts it between single quotes
NvelopeError_str(e) ==
    LET base == "Path: '" \o e.path \o "'"
    IN IF Len(e.args) > 0 THEN base \o "; " \o JoinArgs(e.args) ELSE base

-----------------------------------------------------------------------------
(* Conversions, as the objects the library's constructors build.           *)

ConversionOf(to, from, schema) ==
    [conv |-> "ConversionOf", to |-> to, from |-> from, schema |-> schema]
WithTypeCheck(t, c) == [conv |-> "WithTypeCheck", t |-> t, f |-> c]
WithTypeCheckOnRead(t, c) == [conv |-> "WithTypeCheckOnRead", t |-> t, f |-> c]
with_type_check(on_dump, on_read, c) ==
    WithTypeCheckOnRead(on_read, WithTypeCheck(on_dump, c))
OptionalConv(f) == [conv |-> "OptionalConv", f |-> f]
CompoundConv(obj) == [conv |-> "CompoundConv", obj |-> obj]
ListConversion(item_conv) == [conv |-> "ListConversion", f |-> item_conv]
MappingConv(key_conv, val_conv) ==
    [conv |-> "MappingConv", key |-> key_conv, f |-> val_conv]
WithSchema(c, schema) == [conv |-> "WithSchema", f |-> c, schema |-> schema]
Validated(c) == [conv |-> "Validated", f |-> c]

\* schema dicts, keyed by strings
TypeSchema(t) == PyDict([z \in {PyStr("type")} |-> PyStr(t)])
EmptySchema == PyDict(EmptyMap)

identity_conv == ConversionOf("identity", "identity", EmptySchema)
string_conv == with_type_check("str", "str",
                   ConversionOf("identity", "identity", TypeSchema("string")))
float_conv == with_type_check("float", "float",
                  ConversionOf("identity", "identity", TypeSchema("number")))
int_conv == with_type_check("int", "int",
                ConversionOf("identity", "identity", TypeSchema("integer")))
bool_conv == with_type_check("bool", "bool",
                 ConversionOf("identity", "identity", TypeSchema("boolean")))

\* the key conversion of the tests' mapping: ConversionOf(str, int, {})
int_key_conv == ConversionOf("str", "int", EmptySchema)

-----------------------------------------------------------------------------
(* The declared model types.  A field's annotation is what dataclasses     *)
(* keep in Field.type: a string, a generic alias with an __origin__, or a  *)
(* plain class.                                                            *)

ClassAnn(name) == [form |-> "class", name |-> name]
GenericAnn(origin) == [form |-> "generic", origin |-> origin]
StringAnn(startsMM) == [form |-> "string", startsMM |-> startsMM]
Field(name, type) == [name |-> name, type |-> type]

\* typing.Union is not a class; Jst and Miss are subclasses of MaybeMissing
IsClass(origin) == origin \in {"MaybeMissing", "Jst", "Miss", "list", "dict"}
IsMaybeMissingSubclass(origin) == origin \in {"MaybeMissing", "Jst", "Miss"}

maybe_missing_field(f) ==
    IF f.type.form = "string"
    THEN f.type.startsMM
    ELSE /\ f.type.form = "generic"
         /\ IsClass(f.type.origin)
         /\ IsMaybeMissingSubclass(f.type.origin)

ObjDecl(fields, conversion) ==
    [kind |-> "Obj", fields |-> fields, conversion |-> conversion]
ObjWithAliasesDecl(fields, conversion, alias_to_actual) ==
    [kind |-> "ObjWithAliases", fields |-> fields, conversion |-> conversion,
     alias_to_actual |-> alias_to_actual]
ArrDecl(conversion) == [kind |-> "Arr", item |-> conversion]

\* the attribute `conversion` of an Arr subclass that only inherits the annotation
NoConversion == [conv |-> "undeclared"]

ClassNames ==
    {"Bar", "ArrInner", "Inner", "Dummy", "Message", "Foo", "Clash", "Data", "Tags",
     "Checked", "CheckedList"}

Classes(name) ==
    CASE name = "Bar" ->
            ObjDecl(<<Field("xyz", ClassAnn("int"))>>, [xyz |-> int_conv])
      [] name = "ArrInner" -> ArrDecl(CompoundConv("Bar"))
      [] name = "Inner" ->
            ObjDecl(<<Field("inner_field", ClassAnn("str")),
                      Field("arr_field", ClassAnn("ArrInner"))>>,
                    [inner_field |-> string_conv,
                     arr_field |-> CompoundConv("ArrInner")])
      [] name = "Dummy" ->
            ObjDecl(<<Field("foo", ClassAnn("Inner"))>>,
                    [foo |-> CompoundConv("Inner")])
      [] name = "Message" ->
            ObjDecl(<<Field("from_", GenericAnn("MaybeMissing")),
                      Field("text", StringAnn(TRUE)),
                      Field("message_id", ClassAnn("int"))>>,
                    [message_id |-> int_conv,
                     from_ |-> CompoundConv("Bar"),
                     text |-> OptionalConv(string_conv)])
      [] name = "Foo" ->
            ObjWithAliasesDecl(
                    <<Field("from_", ClassAnn("int")),
                      Field("bar", GenericAnn("MaybeMissing")),
                      Field("baz", GenericAnn("Union"))>>,
                    [from_ |-> int_conv, bar |-> CompoundConv("Bar"),
                     baz |-> OptionalConv(string_conv)],
                    [from_ |-> "from"])
      [] name = "Clash" ->
            ObjWithAliasesDecl(
                    <<Field("a", GenericAnn("MaybeMissing")),
                      Field("b", GenericAnn("Union"))>>,
                    [a |-> int_conv, b |-> OptionalConv(int_conv)],
                    [a |-> "b"])
      [] name = "Data" ->
            ObjDecl(<<Field("mapping_field", GenericAnn("dict"))>>,
                    [mapping_field |-> MappingConv(int_key_conv, string_conv)])
      [] name = "Tags" ->
            ObjDecl(<<Field("list_field", GenericAnn("list"))>>,
                    [list_field |-> ListConversion(CompoundConv("Bar"))])
      [] name \in {"Names", "Labels", "SubNames"} -> ArrDecl(string_conv)
      [] name = "Typo" ->
            ObjDecl(<<Field("a", ClassAnn("int")), Field("b", ClassAnn("str"))>>,
                    [a |-> int_conv, c |-> string_conv])
      [] name = "NoItem" -> ArrDecl(NoConversion)
      [] name = "Checked" ->
            ObjDecl(<<Field("n", ClassAnn("int"))>>, [n |-> Validated(int_conv)])
      [] name = "CheckedList" -> ArrDecl(Validated(string_conv))

\* the sequence model types; SubNames is declared class SubNames(Names)
ArrClassNames == {"ArrInner", "Names", "Labels", "SubNames"}

\* the model types a model type inherits from
Bases(cls) == IF cls = "SubNames" THEN {"Names"} ELSE {}

\* isinstance(other, cls) for an instance of a model type
isinstance_of(other, cls) ==
    other.k \in {"arr", "inst"} /\ (other.cls = cls \/ cls \in Bases(other.cls))

\* Arr.__eq__(self, other)
Arr_eq(self, other) ==
    IF isinstance_of(other, self.cls) THEN self.items = other.items ELSE FALSE

FieldNames(decl) == {decl.fields[i].name : i \in 1..Len(decl.fields)}

\* a lookup that never consults the alias mapping
_true_name_NoAlias(decl, name) == name

\* ObjWithAliases._true_name: the wire key of a field; Obj uses the name itself
_true_name(decl, name) ==
    IF name \in DOMAIN decl.alias_to_actual
    THEN decl.alias_to_actual[name]
    ELSE name

WireName(decl, name) ==
    IF decl.kind = "ObjWithAliases" THEN _true_name(decl, name) ELSE name

-----------------------------------------------------------------------------
(* The enumerated-value conversion: built from an enumeration, a fixed     *)
(* sequence of (name, underlying value) pairs of one underlying type.      *)

Member(enum, name) == [k |-> "member", enum |-> enum, name |-> name]
Pair(name, value) == [name |-> name, value |-> value]

EnumNames == {"Foo", "Foo2", "Foo3", "FooDict"}

\* the enumerations of the tests: class Foo(Enum): x = 1; y = 2; z = 3, ...
Enums(enum) ==
    CASE enum = "Foo" ->
            <<Pair("x", PyInt(1)), Pair("y", PyInt(2)), Pair("z", PyInt(3))>>
      [] enum = "Foo2" -> <<Pair("x", PyStr("foo")), Pair("y", PyStr("bar"))>>
      [] enum = "Foo3" -> <<Pair("x", PyFloat(12)), Pair("y", PyFloat(46))>>
      [] enum = "FooDict" ->
            <<Pair("x", PyDict([z \in {PyStr("foo")} |-> PyInt(1)])),
              Pair("y", PyDict([z \in {PyStr("boo")} |-> PyInt(4)]))>>

\* the JSON Schema type of the underlying values, "" when they have none
EnumType(enum) ==
    LET k == Enums(enum)[1].value.k
    IN CASE k = "int" -> "integer"
         [] k = "str" -> "string"
         [] k = "float" -> "number"
         [] OTHER -> ""

EnumConv(enum) == [conv |-> "EnumConversion", enum |-> enum]

\* EnumConversion(enum): fails when the underlying type is not int, str or float
EnumConversion(enum) ==
    IF EnumType(enum) = "" THEN Raise("TypeError", "", <<>>)
    ELSE Ok(EnumConv(enum), <<>>)

\* a lookup that falls back on the first member for a value the enumeration lacks
EnumConversion_from_json_Default(c, obj) ==
    LET members == Enums(c.enum)
    IN IF \E i \in 1..Len(members) : members[i].value = obj
       THEN Ok(Member(c.enum, members[CHOOSE i \in 1..Len(members) :
                                          members[i].value = obj].name), <<>>)
       ELSE Ok(Member(c.enum, members[1].name), <<>>)

\* EnumConversion.from_json: the member whose value is obj, or an unknown-value error
EnumConversion_from_json(c, obj) ==
    LET members == Enums(c.enum)
    IN IF \E i \in 1..Len(members) : members[i].value = obj
       THEN Ok(Member(c.enum, members[CHOOSE i \in 1..Len(members) :
                                          members[i].value = obj].name), <<>>)
       ELSE Raise("ValueError", "", <<>>)

\* EnumConversion.to_json: the underlying value of a member of the enumeration
EnumConversion_to_json(c, value) ==
    LET members == Enums(c.enum)
    IN Ok(members[CHOOSE i \in 1..Len(members) : members[i].name = value.name].value,
          <<>>)

\* EnumConversion.schema: {"type": ..., "enum": [the values in declaration order]}
EnumConversion_schema(c) ==
    LET members == Enums(c.enum)
    IN PyDict([z \in {PyStr("type"), PyStr("enum")} |->
                 IF z = PyStr("type") THEN PyStr(EnumType(c.enum))
                 ELSE PyList([i \in 1..Len(members) |-> members[i].value])])

-----------------------------------------------------------------------------
(* The Python callables handed to ConversionOf: the identity, str and int. *)

py_str(v) ==
    CASE v.k = "str" -> Ok(v, <<>>)
      [] v.k = "int" -> Ok(PyStr(ToString(v.n)), <<>>)
      [] v.k = "bool" -> Ok(PyStr(IF v.b THEN "True" ELSE "False"), <<>>)
      [] v.k = "none" -> Ok(PyStr("None"), <<>>)
      [] v.k = "float" ->
            Ok(PyStr(ToString(v.x10 \div 10) \o "." \o ToString(v.x10 % 10)), <<>>)
      [] OTHER -> Ok(PyStr("<object>"), <<>>)

\* int(): a decimal string parses to its number, any other string is a ValueError
py_int(v) ==
    CASE v.k = "int" -> Ok(v, <<>>)
      [] v.k = "bool" -> Ok(PyInt(IF v.b THEN 1 ELSE 0), <<>>)
      [] v.k = "float" -> Ok(PyInt(v.x10 \div 10), <<>>)
      [] v.k = "str" ->
            IF \E n \in 0..MaxInt : ToString(n) = v.s
            THEN Ok(PyInt(CHOOSE n \in 0..MaxInt : ToString(n) = v.s), <<>>)
            ELSE Raise("ValueError", "", <<>>)
      [] OTHER -> Raise("TypeError", "", <<>>)

ApplyFn(fn, v) ==
    CASE fn = "identity" -> Ok(v, <<>>)
      [] fn = "str" -> py_str(v)
      [] fn = "int" -> py_int(v)

Logged(e, out) == [out EXCEPT !.log = <<e>> \o @]

\* the order in which a dict is iterated; the model takes one order per key set
KeyOrder(S) ==
    CHOOSE s \in [1..Cardinality(S) -> S] : \A i, j \in DOMAIN s : i # j => s[i] # s[j]

\* a handler that forgets the path the caught NvelopeError carries
Reraise_FreshPath(segment, r, log) == NvelopeError(segment, log \o r.log)

\* except NvelopeError as e: raise NvelopeError(f"{segment}.{e.path}")
\* except Exception as e:    raise NvelopeError(segment)
Reraise(segment, r, log) ==
    IF r.exc = "NvelopeError"
    THEN NvelopeError(segment \o "." \o r.path, log \o r.log)
    ELSE NvelopeError(segment, log \o r.log)

\* a mapping conversion that takes whatever the key conversion returns for a key
is_str_key_Unchecked(key) == TRUE

\* MappingConv.to_json: assert isinstance(key, str)
is_str_key(key) == isinstance(key, "str")

IndexSegment(i) == "<" \o ToString(i) \o ">"

\* an optional combinator that hands every value, None included, to its inner conversion
is_None_Never(value) == FALSE

\* OptionalConv: `if value is None` / `if obj is None`
is_None(value) == value = None

-----------------------------------------------------------------------------
(* schema().  A schema is a dict; the dict a ConversionOf or a WithSchema  *)
(* was constructed with is returned as it is, not copied, so a list inside *)
(* it is one object shared by every schema() result that holds it.  Such a *)
(* list is held by reference (ListRef) and its elements live in the store; *)
(* a list that schema() builds is new on every call and is held by value.  *)

ListRef(id) == [k |-> "ref", id |-> id]

\* a user's conversion declared with a list of types:
\* ConversionOf(identity, identity, {"type": ["string", "integer"]})
string_or_int_conv ==
    ConversionOf("identity", "identity",
                 PyDict([z \in {PyStr("type")} |-> ListRef("string_or_int")]))

\* the lists of the declared schemas, as constructed
InitStore == [id \in {"string_or_int"} |-> <<PyStr("string"), PyStr("integer")>>]

Returned(v, st) == [v |-> v, store |-> st]

\* OptionalConv.schema, given what self._f.schema() returned: s.copy() is shallow,
\* so s["type"].append("null") appends to the list the inner schema holds
OptionalConv_schema(r) ==
    LET s == r.v
        type == PyStr("type")
    IN IF type \in DOMAIN s.m
       THEN LET held == s.m[type]
            IN IF held.k = "ref"
               THEN Returned(s, [r.store EXCEPT ![held.id] = Append(@, PyStr("null"))])
               ELSE IF held.k = "list"
               THEN Returned(PyDict(Put(s.m, type,
                                        PyList(Append(held.items, PyStr("null"))))),
                             r.store)
               ELSE Returned(PyDict(Put(s.m, type, PyList(<<held, PyStr("null")>>))),
                             r.store)
       ELSE r

RECURSIVE schema(_, _), cls_schema(_, _), items_schema_loop(_, _, _, _, _)

\* {key(name): item.schema() for name, item in cls._conversion.items()}, put onto obj
items_schema_loop(decl, names, i, obj, st) ==
    IF i > Len(names) THEN Returned(obj, st)
    ELSE LET r == schema(decl.conversion[names[i]], st)
         IN items_schema_loop(decl, names, i + 1,
                              Put(obj, PyStr(WireName(decl, names[i])), r.v), r.store)

\* Obj.schema, ObjWithAliases.schema and Arr.schema
cls_schema(cls, st) ==
    LET decl == Classes(cls)
        names == KeyOrder(DOMAIN decl.conversion)
        object == [z \in {PyStr("type")} |-> PyStr("object")]
    IN CASE decl.kind = "Arr" ->
              LET r == schema(decl.item, st)
              IN Returned(PyDict([z \in {PyStr("type"), PyStr("items")} |->
                                    IF z = PyStr("type") THEN PyStr("array") ELSE r.v]),
                          r.store)
         [] decl.kind = "Obj" ->
              LET r == items_schema_loop(decl, names, 1, EmptyMap, st)
                  required == [i \in 1..Len(decl.fields) |-> decl.fields[i]]
                  kept == SelectSeq(required, LAMBDA f : ~maybe_missing_field(f))
              IN Returned(PyDict(Put(Put(object, PyStr("properties"), PyDict(r.v)),
                                     PyStr("required"),
                                     PyList([i \in 1..Len(kept) |-> PyStr(kept[i].name)]))),
                          r.store)
         [] decl.kind = "ObjWithAliases" ->
              LET r == items_schema_loop(decl, names, 1, object, st)
              IN Returned(PyDict(r.v), r.store)

\* Conversion.schema
schema(c, st) ==
    CASE c.conv \in {"ConversionOf", "WithSchema"} -> Returned(c.schema, st)
      [] c.conv = "EnumConversion" -> Returned(EnumConversion_schema(c), st)
      [] c.conv \in {"WithTypeCheck", "WithTypeCheckOnRead", "Validated"} ->
            schema(c.f, st)
      [] c.conv = "OptionalConv" -> OptionalConv_schema(schema(c.f, st))
      [] c.conv = "CompoundConv" -> cls_schema(c.obj, st)
      [] c.conv = "ListConversion" ->
            LET r == schema(c.f, st)
            IN Returned(PyDict([z \in {PyStr("type"), PyStr("items")} |->
                                  IF z = PyStr("type") THEN PyStr("array") ELSE r.v]),
                        r.store)
      [] c.conv = "MappingConv" ->
            LET r == schema(c.f, st)
            IN Returned(PyDict([z \in {PyStr("type"), PyStr("additionalProperties")} |->
                                  IF z = PyStr("type") THEN PyStr("object") ELSE r.v]),
                        r.store)

\* what a caller reads in a schema: every shared list with the elements it has now
RECURSIVE Deref(_, _)
Deref(v, st) ==
    CASE v.k = "ref" -> PyList(st[v.id])
      [] v.k = "dict" -> PyDict([key \in DOMAIN v.m |-> Deref(v.m[key], st)])
      [] v.k = "list" -> PyList([i \in 1..Len(v.items) |-> Deref(v.items[i], st)])
      [] OTHER -> v

-----------------------------------------------------------------------------
(* jsonschema.validate, for the "type" keyword: a bool is no integer and   *)
(* no number, an int is a number, and a float with no fractional part is   *)
(* an integer.                                                             *)

is_type(instance, type) ==
    CASE type = "string" -> instance.k = "str"
      [] type = "integer" ->
            instance.k = "int" \/ (instance.k = "float" /\ instance.x10 % 10 = 0)
      [] type = "number" -> instance.k \in {"int", "float"}
      [] type = "boolean" -> instance.k = "bool"
      [] type = "null" -> instance.k = "none"
      [] type = "array" -> instance.k = "list"
      [] type = "object" -> instance.k = "dict"
      [] OTHER -> FALSE

\* TRUE when validate(instance, schema) returns, FALSE when it raises ValidationError
validate(instance, schema_) ==
    LET type == PyStr("type")
    IN type \in DOMAIN schema_.m =>
         IF schema_.m[type].k = "list"
         THEN \E i \in 1..Len(schema_.m[type].items) :
                 is_type(instance, schema_.m[type].items[i].s)
         ELSE is_type(instance, schema_.m[type].s)

\* self.schema() as Validated reads it; the conversions wrapped here hold no
\* shared list, so the call leaves the store as it is
Validated_schema(c) == Deref(schema(c, InitStore).v, InitStore)

\* a wrapper that validates what it is given in to_json, not what it returns
Validated_to_json_InputFirst(c, value, j, e) ==
    IF ~validate(value, Validated_schema(c)) THEN Raise("ValidationError", "", <<e>>)
    ELSE Logged(e, j)

\* Validated.to_json, j being what self._c.to_json(value) did:
\* j = self._c.to_json(value); validate(j, self.schema()); return j
Validated_to_json(c, value, j, e) ==
    IF ~j.ok THEN Logged(e, j)
    ELSE IF ~validate(j.v, Validated_schema(c))
    THEN Raise("ValidationError", "", <<e>> \o j.log)
    ELSE Logged(e, j)

-----------------------------------------------------------------------------
(* Conversion.to_json / from_json and the compounds' as_json / from_json.  *)

RECURSIVE to_json(_, _), from_json(_, _), as_json(_, _), cls_from_json(_, _)
RECURSIVE obj_as_json_loop(_, _, _, _, _), arr_as_json_loop(_, _, _, _, _)
RECURSIVE obj_from_json_loop(_, _, _, _, _, _), arr_from_json_loop(_, _, _, _, _)
RECURSIVE list_to_json_loop(_, _, _, _, _), list_from_json_loop(_, _, _, _, _)
RECURSIVE mapping_to_json_loop(_, _, _, _, _, _), mapping_from_json_loop(_, _, _, _, _, _)

\* the body of the loop of Obj.as_json for the field name, r being what
\* field.to_json(item) did: obj[name] = ..., or one of the except clauses
obj_as_json_item(decl, self, i, obj, log, name, r) ==
    LET key == IF decl.kind = "ObjWithAliases" THEN _true_name(decl, name) ELSE name
    IN IF r.ok
       THEN obj_as_json_loop(decl, self, i + 1, Put(obj, PyStr(key), r.v), log \o r.log)
       ELSE Reraise(name, r, log)

\* Obj.as_json and ObjWithAliases.as_json: the loop over asdict(self).items()
obj_as_json_loop(decl, self, i, obj, log) ==
    IF i > Len(decl.fields) THEN Ok(PyDict(obj), log)
    ELSE
      LET name == decl.fields[i].name
          item == self.f[name]
      IN IF name \notin DOMAIN decl.conversion
         THEN NvelopeError(name, log)
         ELSE IF isinstance(item, "MaybeMissing") /\ item.k = "Miss"
         THEN obj_as_json_loop(decl, self, i + 1, obj, log)
         ELSE obj_as_json_item(decl, self, i, obj, log, name,
                  to_json(decl.conversion[name],
                          IF isinstance(item, "MaybeMissing") THEN item.val ELSE item))

\* the body of the loop of Arr.as_json, r being what conversion.to_json(item) did
arr_as_json_item(decl, self, i, j, log, r) ==
    IF r.ok
    THEN arr_as_json_loop(decl, self, i + 1, Append(j, r.v), log \o r.log)
    ELSE Reraise(IndexSegment(i - 1), r, log)

\* Arr.as_json: the loop over enumerate(self._items), indices from 0
arr_as_json_loop(decl, self, i, j, log) ==
    IF i > Len(self.items) THEN Ok(PyList(j), log)
    ELSE IF decl.item = NoConversion
    THEN NvelopeError(IndexSegment(i - 1), log)
    ELSE arr_as_json_item(decl, self, i, j, log, to_json(decl.item, self.items[i]))

\* as_json of the model type obj declared as decl
decl_as_json(decl, obj, self) ==
    IF decl.kind = "Arr"
    THEN IF self.k = "arr" /\ self.cls = obj
         THEN arr_as_json_loop(decl, self, 1, <<>>, <<>>)
         ELSE Raise("AttributeError", "", <<>>)
    ELSE IF self.k = "inst" /\ self.cls = obj
         THEN obj_as_json_loop(decl, self, 1, EmptyMap, <<>>)
         ELSE Raise("TypeError", "", <<>>)

\* obj.as_json(self), as CompoundConv calls it; self is an instance of obj or no
\* model instance at all (fields() and ._items then raise)
as_json(obj, self) == decl_as_json(Classes(obj), obj, self)

\* `name in parsed`: None (JSON null) is a value like any other
KeyPresent_NullIsMissing(parsed, name) ==
    PyStr(name) \in DOMAIN parsed.m /\ parsed.m[PyStr(name)] # None

KeyPresent(parsed, name) == PyStr(name) \in DOMAIN parsed.m

\* a lookup that answers None for a key the dict lacks, as parsed.get(name) does
Subscript_Get(parsed, name) ==
    IF PyStr(name) \in DOMAIN parsed.m THEN Ok(parsed.m[PyStr(name)], <<>>)
    ELSE Ok(None, <<>>)

\* parsed[name]: KeyError for a key the dict lacks
Subscript(parsed, name) ==
    IF PyStr(name) \in DOMAIN parsed.m THEN Ok(parsed.m[PyStr(name)], <<>>)
    ELSE Raise("KeyError", "", <<>>)

\* a loop body that, after a failure, still converts the fields declared later
\* and only then raises
obj_from_json_item_ConvertAll(obj, decl, parsed, i, kwargs, log, f, r) ==
    IF r.ok
    THEN obj_from_json_loop(obj, decl, parsed, i + 1,
                            Put(kwargs, f.name,
                                IF maybe_missing_field(f) THEN Jst(r.v) ELSE r.v),
                            log \o r.log)
    ELSE [Reraise(f.name, r, log) EXCEPT
             !.log = obj_from_json_loop(obj, decl, parsed, i + 1, kwargs,
                                        log \o r.log).log]

\* the body of the loop of Obj.from_json for the field f, r being what
\* conv.from_json(parsed[name]) did: kwargs[f.name] = ..., or one of the except clauses
obj_from_json_item(obj, decl, parsed, i, kwargs, log, f, r) ==
    IF r.ok
    THEN obj_from_json_loop(obj, decl, parsed, i + 1,
                            Put(kwargs, f.name,
                                IF maybe_missing_field(f) THEN Jst(r.v) ELSE r.v),
                            log \o r.log)
    ELSE Reraise(f.name, r, log)

\* Obj.from_json and ObjWithAliases.from_json: the loop over fields(cls)
obj_from_json_loop(obj, decl, parsed, i, kwargs, log) ==
    IF i > Len(decl.fields) THEN Ok(Inst(obj, kwargs), log)
    ELSE
      LET f == decl.fields[i]
          true_name == IF decl.kind = "ObjWithAliases"
                       THEN _true_name(decl, f.name) ELSE f.name
          present == KeyPresent(parsed, true_name)
      IN IF f.name \notin DOMAIN decl.conversion
         THEN NvelopeError(f.name, log)
         ELSE IF maybe_missing_field(f) /\ ~present
         THEN obj_from_json_loop(obj, decl, parsed, i + 1,
                                 Put(kwargs, f.name, Miss), log)
         ELSE IF ~Subscript(parsed, true_name).ok
         THEN Reraise(f.name, Subscript(parsed, true_name), log)
         ELSE obj_from_json_item(obj, decl, parsed, i, kwargs, log, f,
                  from_json(decl.conversion[f.name], Subscript(parsed, true_name).v))

\* the body of the loop of Arr.from_json, r being what conversion.from_json(item) did
arr_from_json_item(obj, decl, parsed, i, arr, r) ==
    IF r.ok
    THEN arr_from_json_loop(obj, decl, parsed, i + 1,
                            Ok(Append(arr.v, r.v), arr.log \o r.log))
    ELSE Reraise(IndexSegment(i - 1), r, arr.log)

\* Arr.from_json: the loop over enumerate(parsed)
arr_from_json_loop(obj, decl, parsed, i, arr) ==
    IF i > Len(parsed.items) THEN Ok(ArrInst(obj, arr.v), arr.log)
    ELSE IF decl.item = NoConversion
    THEN NvelopeError(IndexSegment(i - 1), arr.log)
    ELSE arr_from_json_item(obj, decl, parsed, i, arr,
                            from_json(decl.item, parsed.items[i]))

\* from_json of the model type obj declared as decl
decl_from_json(decl, obj, parsed) ==
    IF decl.kind = "Arr"
    THEN IF ~isinstance(parsed, "list")
         THEN Raise("AssertionError", "", <<>>)
         ELSE arr_from_json_loop(obj, decl, parsed, 1, Ok(<<>>, <<>>))
    ELSE IF ~isinstance(parsed, "dict")
         THEN Raise("AssertionError", "", <<>>)
         ELSE obj_from_json_loop(obj, decl, parsed, 1, EmptyMap, <<>>)

\* cls.from_json(parsed) of a model type
cls_from_json(obj, parsed) == decl_from_json(Classes(obj), obj, parsed)

\* the loops go on with the next element, or end with the failure
list_to_json_next(conv, items, i, r) ==
    IF r.ok THEN list_to_json_loop(conv, items, i + 1, r.v, r.log) ELSE r

list_from_json_next(conv, items, i, r) ==
    IF r.ok THEN list_from_json_loop(conv, items, i + 1, r.v, r.log) ELSE r

\* d[key] = val_conv.to_json(v), val being what val_conv.to_json(v) did
mapping_to_json_value(c, value, order, i, d, log, key, val) ==
    IF ~val.ok THEN [val EXCEPT !.log = log \o @]
    ELSE mapping_to_json_loop(c, value, order, i + 1, Put(d, key, val.v), log \o val.log)

\* key: val_conv.from_json(v), val being what val_conv.from_json(v) did
mapping_from_json_value(c, obj, order, i, d, log, key, val) ==
    IF ~val.ok THEN [val EXCEPT !.log = log \o @]
    ELSE mapping_from_json_loop(c, obj, order, i + 1, Put(d, key, val.v), log \o val.log)

\* one element of a list comprehension, r being what the conversion did with it:
\* the elements so far with the new one, or the failure
list_item(out, log, r) ==
    IF r.ok THEN Ok(Append(out, r.v), log \o r.log) ELSE [r EXCEPT !.log = log \o @]

\* ListConversion.to_json: [self._conv.to_json(v) for v in value]
list_to_json_loop(conv, items, i, out, log) ==
    IF i > Len(items) THEN Ok(PyList(out), log)
    ELSE list_to_json_next(conv, items, i, list_item(out, log, to_json(conv, items[i])))

\* ListConversion.from_json: [self._conv.from_json(v) for v in obj]
list_from_json_loop(conv, items, i, out, log) ==
    IF i > Len(items) THEN Ok(PyList(out), log)
    ELSE list_from_json_next(conv, items, i, list_item(out, log, from_json(conv, items[i])))

\* one key of MappingConv.to_json, key being what key_conv.to_json(k) did
mapping_to_json_key(c, value, order, i, d, log, key) ==
    IF ~key.ok THEN [key EXCEPT !.log = log \o @]
    ELSE IF ~is_str_key(key.v)
    THEN Raise("AssertionError", "", log \o key.log)
    ELSE mapping_to_json_value(c, value, order, i, d, log \o key.log, key.v,
                               to_json(c.f, value.m[order[i]]))

\* MappingConv.to_json: the loop over value.items()
mapping_to_json_loop(c, value, order, i, d, log) ==
    IF i > Len(order) THEN Ok(PyDict(d), log)
    ELSE mapping_to_json_key(c, value, order, i, d, log, to_json(c.key, order[i]))

\* one key of MappingConv.from_json, key being what key_conv.from_json(k) did
mapping_from_json_key(c, obj, order, i, d, log, key) ==
    IF ~key.ok THEN [key EXCEPT !.log = log \o @]
    ELSE mapping_from_json_value(c, obj, order, i, d, log \o key.log, key.v,
                                 from_json(c.f, obj.m[order[i]]))

\* MappingConv.from_json: the dict comprehension over obj.items()
mapping_from_json_loop(c, obj, order, i, d, log) ==
    IF i > Len(order) THEN Ok(PyDict(d), log)
    ELSE mapping_from_json_key(c, obj, order, i, d, log, from_json(c.key, order[i]))

to_json(c, value) ==
    LET e == Entry("to_json", c, value)
    IN CASE c.conv = "ConversionOf" -> Logged(e, ApplyFn(c.to, value))
         [] c.conv = "WithTypeCheck" ->
               IF ~isinstance(value, c.t) THEN Raise("AssertionError", "", <<e>>)
               ELSE Logged(e, to_json(c.f, value))
         [] c.conv = "WithTypeCheckOnRead" -> Logged(e, to_json(c.f, value))
         [] c.conv = "OptionalConv" ->
               IF is_None(value) THEN Ok(None, <<e>>)
               ELSE Logged(e, to_json(c.f, value))
         [] c.conv = "CompoundConv" -> Logged(e, as_json(c.obj, value))
         [] c.conv = "ListConversion" ->
               IF ~isinstance(value, "list") THEN Raise("AssertionError", "", <<e>>)
               ELSE Logged(e, list_to_json_loop(c.f, value.items, 1, <<>>, <<>>))
         [] c.conv = "MappingConv" ->
               IF ~isinstance(value, "dict") THEN Raise("AttributeError", "", <<e>>)
               ELSE Logged(e, mapping_to_json_loop(c, value,
                                  KeyOrder(DOMAIN value.m), 1, EmptyMap, <<>>))
         [] c.conv = "WithSchema" -> Logged(e, to_json(c.f, value))
         [] c.conv = "EnumConversion" -> Logged(e, EnumConversion_to_json(c, value))
         [] c.conv = "Validated" -> Validated_to_json(c, value, to_json(c.f, value), e)

from_json(c, obj) ==
    LET e == Entry("from_json", c, obj)
    IN CASE c.conv = "ConversionOf" -> Logged(e, ApplyFn(c.from, obj))
         [] c.conv = "WithTypeCheck" -> Logged(e, from_json(c.f, obj))
         [] c.conv = "WithTypeCheckOnRead" ->
               IF ~isinstance(obj, c.t) THEN Raise("AssertionError", "", <<e>>)
               ELSE Logged(e, from_json(c.f, obj))
         [] c.conv = "OptionalConv" ->
               IF is_None(obj) THEN Ok(None, <<e>>)
               ELSE Logged(e, from_json(c.f, obj))
         [] c.conv = "CompoundConv" -> Logged(e, cls_from_json(c.obj, obj))
         [] c.conv = "ListConversion" ->
               IF ~isinstance(obj, "list") THEN Raise("AssertionError", "", <<e>>)
               ELSE Logged(e, list_from_json_loop(c.f, obj.items, 1, <<>>, <<>>))
         [] c.conv = "MappingConv" ->
               IF ~isinstance(obj, "dict") THEN Raise("AssertionError", "", <<e>>)
               ELSE Logged(e, mapping_from_json_loop(c, obj,
                                  KeyOrder(DOMAIN obj.m), 1, EmptyMap, <<>>))
         [] c.conv = "WithSchema" -> Logged(e, from_json(c.f, obj))
         [] c.conv = "EnumConversion" -> Logged(e, EnumConversion_from_json(c, obj))
         [] c.conv = "Validated" ->
               IF ~validate(obj, Validated_schema(c))
               THEN Raise("ValidationError", "", <<e>>)
               ELSE Logged(e, from_json(c.f, obj))

-----------------------------------------------------------------------------
(* The values a client hands to the library: instances built from the     *)
(* declared fields (with valid and with invalid attribute values) and      *)
(* JSON documents (with declared keys present or absent, valid or invalid  *)
(* values, and undeclared keys).                                           *)

FieldPool == {PyStr("a"), PyInt(1)}
KeyWirePool == {PyStr("1"), PyStr("a")}
ScalarPool ==
    {None, PyBool(TRUE), PyInt(1), PyFloat(10), PyFloat(15), PyStr("a")}

SeqsUpTo(S, n) == UNION {[1..m -> S] : m \in 0..n}

\* every function on the names 1..Len(sets) picking name[i]'s value in sets[i]
RECURSIVE Product(_, _, _)
Product(names, sets, i) ==
    IF i > Len(names) THEN {EmptyMap}
    ELSE {Put(m, names[i], v) : m \in Product(names, sets, i + 1), v \in sets[i]}

\* as Product, where an entry may also be left out of the function
RECURSIVE PartialProduct(_, _, _)
PartialProduct(names, sets, i) ==
    IF i > Len(names) THEN {EmptyMap}
    ELSE LET rest == PartialProduct(names, sets, i + 1)
         IN rest \cup {Put(m, names[i], v) : m \in rest, v \in sets[i]}

RECURSIVE ValuesFor(_), InstancesOf(_), WireFor(_), WireOf(_)

\* the conversion a declaration gives a field, if it gives one
FieldConversion(decl, name) ==
    IF name \in DOMAIN decl.conversion THEN decl.conversion[name] ELSE NoConversion

InstancesOf(cls) ==
    LET decl == Classes(cls)
    IN IF decl.kind = "Arr"
       THEN {ArrInst(cls, s) : s \in SeqsUpTo(ValuesFor(decl.item), MaxLen)}
       ELSE LET names == [i \in 1..Len(decl.fields) |-> decl.fields[i].name]
                sets == [i \in 1..Len(decl.fields) |->
                            LET vs == ValuesFor(FieldConversion(decl, decl.fields[i].name))
                            IN IF maybe_missing_field(decl.fields[i])
                               THEN {Miss} \cup {Jst(v) : v \in vs}
                               ELSE vs]
            IN {Inst(cls, f) : f \in Product(names, sets, 1)}

ValuesFor(c) ==
    CASE c.conv = "OptionalConv" -> {None} \cup ValuesFor(c.f)
      [] c.conv = "CompoundConv" -> InstancesOf(c.obj) \cup {PyInt(1)}
      [] c.conv = "ListConversion" ->
            {PyList(s) : s \in SeqsUpTo(ValuesFor(c.f), MaxLen)} \cup {PyInt(1)}
      [] c.conv = "MappingConv" ->
            LET keys == KeyOrder(ValuesFor(c.key))
            IN {PyDict(m) : m \in PartialProduct(keys,
                                      [i \in 1..Len(keys) |-> ValuesFor(c.f)], 1)}
      [] OTHER -> FieldPool

WireOf(cls) ==
    LET decl == Classes(cls)
    IN IF decl.kind = "Arr"
       THEN {PyList(s) : s \in SeqsUpTo(WireFor(decl.item), MaxLen)}
       ELSE LET wire(i) == IF decl.kind = "ObjWithAliases"
                           THEN _true_name(decl, decl.fields[i].name)
                           ELSE decl.fields[i].name
                keys == KeyOrder({PyStr(wire(i)) : i \in 1..Len(decl.fields)}
                                 \cup {PyStr("extra")})
                sets == [i \in 1..Len(keys) |->
                            IF keys[i] = PyStr("extra") THEN {PyInt(1)}
                            ELSE UNION {WireFor(FieldConversion(decl, decl.fields[n].name)) :
                                          n \in {n \in 1..Len(decl.fields) :
                                                   PyStr(wire(n)) = keys[i]}}]
            IN {PyDict(m) : m \in PartialProduct(keys, sets, 1)}

WireFor(c) ==
    CASE c.conv = "OptionalConv" -> {None} \cup WireFor(c.f)
      [] c.conv = "CompoundConv" -> WireOf(c.obj) \cup {PyInt(1)}
      [] c.conv = "ListConversion" ->
            {PyList(s) : s \in SeqsUpTo(WireFor(c.f), MaxLen)} \cup {PyInt(1)}
      [] c.conv = "MappingConv" ->
            LET keys == KeyOrder(KeyWirePool)
            IN {PyDict(m) : m \in PartialProduct(keys,
                                      [i \in 1..Len(keys) |-> WireFor(c.f)], 1)}
      [] OTHER -> FieldPool

\* documents of every JSON shape, for a from_json that expects one shape
Misshapen == {None, PyInt(1), PyStr("a"), PyList(<<>>), PyDict(EmptyMap)}

\* the conversions a client calls directly
Convs ==
    {string_conv, int_conv, float_conv, bool_conv, identity_conv,
     OptionalConv(string_conv), OptionalConv(int_conv),
     OptionalConv(CompoundConv("Bar")), OptionalConv(OptionalConv(bool_conv)),
     MappingConv(int_key_conv, string_conv),
     MappingConv(identity_conv, string_conv)}
    \cup {EnumConv(enum) : enum \in {e \in EnumNames : EnumConversion(e).ok}}
    \cup {Validated(int_conv), Validated(string_conv)}

ConvValues(c) ==
    IF c.conv \in {"OptionalConv", "MappingConv"}
    THEN ScalarPool \cup ValuesFor(c)
    ELSE IF c.conv = "EnumConversion"
    THEN {Member(c.enum, Enums(c.enum)[i].name) : i \in 1..Len(Enums(c.enum))}
    ELSE ScalarPool

ConvWire(c) ==
    IF c.conv \in {"OptionalConv", "MappingConv"}
    THEN ScalarPool \cup WireFor(c)
    ELSE IF c.conv = "EnumConversion"
    THEN ScalarPool \cup {PyInt(5)}
            \cup {Enums(c.enum)[i].value : i \in 1..Len(Enums(c.enum))}
    ELSE ScalarPool

-----------------------------------------------------------------------------
(* The alias table: the mapping from internal field names to external keys *)
(* it is built from, and that mapping inverted at construction.  Where two *)
(* internal names share an external key the inverse keeps one of them.     *)

AliasNames == {"from_", "from", "def"}

Range(f) == {f[n] : n \in DOMAIN f}

Inversions(pairs) ==
    {inv \in [Range(pairs) -> DOMAIN pairs] : \A e \in Range(pairs) : pairs[inv[e]] = e}

AliasTable(pairs, inv) == [alias_to_actual |-> pairs, actual_to_alias |-> inv]

AliasTables ==
    UNION {{AliasTable(pairs, inv) : inv \in Inversions(pairs)} :
             pairs \in UNION {[D -> AliasNames] : D \in SUBSET AliasNames}}

\* internal name -> external key, the lookup of ObjWithAliases._true_name
aliased(table, name) == _true_name(table, name)

\* external key -> internal name
actual(table, name) ==
    IF name \in DOMAIN table.actual_to_alias THEN table.actual_to_alias[name] ELSE name

-----------------------------------------------------------------------------
(* The client.  It builds an instance or receives a JSON document, calls   *)
(* as_json / from_json on a model type or to_json / from_json on a         *)
(* conversion, and may feed the result back through the opposite call.     *)

Threads == {"t1", "t2"}

Call(op, target, arg, out) == [op |-> op, target |-> target, arg |-> arg, out |-> out]

Last == trace[Len(trace)]

Init ==
    /\ trace = <<>>
    /\ store = InitStore
    /\ tpc = [t \in Threads |-> "idle"]
    /\ ttarget = [t \in Threads |-> identity_conv]
    /\ tret = [t \in Threads |-> None]
    /\ tseen = [t \in Threads |-> <<>>]

SchemaVars == <<store, tpc, ttarget, tret, tseen>>

\* the class statement of a model type: neither Obj nor Arr runs anything when it
\* is subclassed, and dataclass() does not look at _conversion
declare(cls) == Ok(None, <<>>)

\* the model types the client declares itself, the others being declared already
DeclClassNames == {"Typo", "NoItem", "Names"}

\* the client declares a model type
Declare ==
    /\ trace = <<>>
    /\ \E cls \in DeclClassNames :
          trace' = Append(trace, Call("declare", CompoundConv(cls), None, declare(cls)))
    /\ UNCHANGED SchemaVars

\* the previous step declared cls
Declared(cls) ==
    Last.op = "declare" /\ Last.target = CompoundConv(cls) /\ Last.out.ok

\* x.as_json() on an instance the client built, or on the one from_json returned
AsJson ==
    /\ Len(trace) < MaxSteps
    /\ \E cls \in ClassNames \cup DeclClassNames :
         \E x \in IF trace = <<>>
                  THEN IF cls \in ClassNames THEN InstancesOf(cls) ELSE {}
                  ELSE IF Declared(cls) THEN InstancesOf(cls)
                  ELSE IF Last.op = "from_json" /\ Last.target = CompoundConv(cls)
                          /\ Last.out.ok
                       THEN {Last.out.v} ELSE {} :
            trace' = Append(trace, Call("as_json", CompoundConv(cls), x, as_json(cls, x)))
    /\ UNCHANGED SchemaVars

\* T.from_json(j) on a received document, or on what as_json returned
FromJson ==
    /\ Len(trace) < MaxSteps
    /\ \E cls \in ClassNames \cup DeclClassNames :
         \E j \in IF trace = <<>>
                  THEN IF cls \in ClassNames THEN WireOf(cls) \cup Misshapen ELSE {}
                  ELSE IF Declared(cls) THEN WireOf(cls) \cup {PyInt(1)}
                  ELSE IF Last.op = "as_json" /\ Last.target = CompoundConv(cls)
                          /\ Last.out.ok
                       THEN {Last.out.v} ELSE {} :
            trace' = Append(trace,
                            Call("from_json", CompoundConv(cls), j, cls_from_json(cls, j)))
    /\ UNCHANGED SchemaVars

\* conv.to_json(v) on a conversion object
ConvToJson ==
    /\ Len(trace) < MaxSteps
    /\ \E c \in Convs :
         \E v \in IF trace = <<>> THEN ConvValues(c)
                  ELSE IF Last.op = "conv.from_json" /\ Last.target = c /\ Last.out.ok
                       THEN {Last.out.v} ELSE {} :
            trace' = Append(trace, Call("conv.to_json", c, v, to_json(c, v)))
    /\ UNCHANGED SchemaVars

\* conv.from_json(j) on a conversion object
ConvFromJson ==
    /\ Len(trace) < MaxSteps
    /\ \E c \in Convs :
         \E j \in IF trace = <<>> THEN ConvWire(c)
                  ELSE IF Last.op = "conv.to_json" /\ Last.target = c /\ Last.out.ok
                       THEN {Last.out.v} ELSE {} :
            trace' = Append(trace, Call("conv.from_json", c, j, from_json(c, j)))
    /\ UNCHANGED SchemaVars

\* the table and name of a lookup: a fresh one, or the previous lookup's table and result
LookupTables ==
    IF trace = <<>> THEN AliasTables
    ELSE IF Last.op \in {"aliased", "actual"} THEN {Last.target} ELSE {}

LookupNames == IF trace = <<>> THEN AliasNames ELSE {Last.out.v.s}

\* table.aliased(name)
Aliased ==
    /\ Len(trace) < MaxSteps
    /\ \E table \in LookupTables : \E name \in LookupNames :
          trace' = Append(trace, Call("aliased", table, PyStr(name),
                                      Ok(PyStr(aliased(table, name)), <<>>)))
    /\ UNCHANGED SchemaVars

\* table.actual(name)
Actual ==
    /\ Len(trace) < MaxSteps
    /\ \E table \in LookupTables : \E name \in LookupNames :
          trace' = Append(trace, Call("actual", table, PyStr(name),
                                      Ok(PyStr(actual(table, name)), <<>>)))
    /\ UNCHANGED SchemaVars

\* EnumConversion(enum) on an enumeration
EnumConstruct ==
    /\ trace = <<>>
    /\ \E enum \in EnumNames :
          trace' = Append(trace, Call("EnumConversion", EnumConv(enum), None,
                                      EnumConversion(enum)))
    /\ UNCHANGED SchemaVars

\* conv.schema() on a conversion object, read at once
ConvSchema ==
    /\ Len(trace) < MaxSteps
    /\ IF trace = <<>> THEN TRUE ELSE Last.op = "conv.schema"
    /\ \E c \in Convs :
          LET r == schema(c, store)
          IN /\ trace' = Append(trace, Call("conv.schema", c, None,
                                            Ok(Deref(r.v, r.store), <<>>)))
             /\ store' = r.store
    /\ UNCHANGED <<tpc, ttarget, tret, tseen>>

\* the operands of a comparison
Operands(left, right) == [k |-> "pair", left |-> left, right |-> right]

\* x == y on two sequence instances the client built, or the previous comparison
\* with its operands exchanged
ArrEq ==
    /\ Len(trace) < MaxSteps
    /\ \E pair \in IF trace = <<>>
                   THEN {Operands(x, y) :
                           x \in UNION {InstancesOf(c) : c \in ArrClassNames},
                           y \in UNION {InstancesOf(c) : c \in ArrClassNames}}
                   ELSE IF Last.op = "eq"
                        THEN {Operands(Last.arg.right, Last.arg.left)} ELSE {} :
          trace' = Append(trace, Call("eq", CompoundConv(pair.left.cls), pair,
                                      Ok(PyBool(Arr_eq(pair.left, pair.right)), <<>>)))
    /\ UNCHANGED SchemaVars

Next ==
    \/ AsJson \/ FromJson \/ ConvToJson \/ ConvFromJson
    \/ Aliased \/ Actual \/ ArrEq \/ Declare
    \/ EnumConstruct \/ ConvSchema

Spec == Init /\ [][Next]_vars

-----------------------------------------------------------------------------
(* Callers of schema().  A thread calls schema() on a conversion and later *)
(* reads the dict it was handed; between the two another thread may run a  *)
(* schema() call of its own.                                               *)

SchemaTargets ==
    Convs \cup {CompoundConv(cls) : cls \in ClassNames}
          \cup {string_or_int_conv, OptionalConv(string_or_int_conv),
                OptionalConv(identity_conv),
                ListConversion(OptionalConv(string_or_int_conv))}

CallsMade ==
    LET made(t) == Len(tseen[t]) + IF tpc[t] = "returned" THEN 1 ELSE 0
    IN made("t1") + made("t2")

\* thread t calls target.schema() and holds what it returned
Schema(t) ==
    /\ tpc[t] = "idle"
    /\ CallsMade < MaxCalls
    /\ \E target \in SchemaTargets :
          LET r == schema(target, store)
          IN /\ ttarget' = [ttarget EXCEPT ![t] = target]
             /\ tret' = [tret EXCEPT ![t] = r.v]
             /\ store' = r.store
    /\ tpc' = [tpc EXCEPT ![t] = "returned"]
    /\ UNCHANGED <<trace, tseen>>

\* thread t reads the schema it holds
Observe(t) ==
    /\ tpc[t] = "returned"
    /\ tseen' = [tseen EXCEPT ![t] =
                    Append(@, [target |-> ttarget[t], value |-> Deref(tret[t], store)])]
    /\ tpc' = [tpc EXCEPT ![t] = "idle"]
    /\ UNCHANGED <<trace, store, ttarget, tret>>

SchemaNext == \E t \in Threads : Schema(t) \/ Observe(t)

SchemaSpec == Init /\ [][SchemaNext]_vars

-----------------------------------------------------------------------------
(* What the claims speak of: values valid for a conversion, the model      *)
(* types a type refers to, and the wire keys of a record type.             *)

JsonScalar(v) == v.k \in {"none", "bool", "int", "float", "str"}

RECURSIVE DomainOK(_, _), ValidInstance(_, _)

\* v is a domain value the conversion c is declared for
DomainOK(c, v) ==
    CASE c.conv = "ConversionOf" ->
            IF c.to = "identity" THEN JsonScalar(v)
            ELSE v.k = "int" /\ v.n \in 0..MaxInt
      [] c.conv = "WithTypeCheck" -> isinstance(v, c.t) /\ DomainOK(c.f, v)
      [] c.conv = "WithTypeCheckOnRead" -> DomainOK(c.f, v)
      [] c.conv \in {"WithSchema", "Validated"} -> DomainOK(c.f, v)
      [] c.conv = "EnumConversion" -> v.k = "member" /\ v.enum = c.enum
      [] c.conv = "OptionalConv" -> v = None \/ DomainOK(c.f, v)
      [] c.conv = "CompoundConv" -> ValidInstance(c.obj, v)
      [] c.conv = "ListConversion" ->
            v.k = "list" /\ \A i \in 1..Len(v.items) : DomainOK(c.f, v.items[i])
      [] c.conv = "MappingConv" ->
            v.k = "dict" /\ \A key \in DOMAIN v.m :
                                DomainOK(c.key, key) /\ DomainOK(c.f, v.m[key])

\* x is an instance of cls built from its declared fields with valid values
ValidInstance(cls, x) ==
    LET decl == Classes(cls)
    IN IF decl.kind = "Arr"
       THEN x.k = "arr" /\ x.cls = cls /\ decl.item # NoConversion
            /\ \A i \in 1..Len(x.items) : DomainOK(decl.item, x.items[i])
       ELSE x.k = "inst" /\ x.cls = cls
            /\ \A i \in 1..Len(decl.fields) :
                 LET f == decl.fields[i]
                     v == x.f[f.name]
                 IN IF f.name \notin DOMAIN decl.conversion THEN FALSE
                    ELSE IF maybe_missing_field(f)
                    THEN v = Miss \/ (v.k = "Jst" /\ DomainOK(decl.conversion[f.name], v.val))
                    ELSE ~isinstance(v, "MaybeMissing")
                         /\ DomainOK(decl.conversion[f.name], v)

\* the model types a conversion, or a model type, refers to
RECURSIVE ConvClasses(_), ReachableClasses(_)
ConvClasses(c) ==
    CASE c.conv = "CompoundConv" -> ReachableClasses(c.obj)
      [] c.conv = "MappingConv" -> ConvClasses(c.key) \cup ConvClasses(c.f)
      [] c.conv \in {"ConversionOf", "EnumConversion"} -> {}
      [] OTHER -> ConvClasses(c.f)

ReachableClasses(cls) ==
    LET decl == Classes(cls)
    IN {cls} \cup
       IF decl.kind = "Arr" THEN ConvClasses(decl.item)
       ELSE UNION {ConvClasses(decl.conversion[n]) : n \in DOMAIN decl.conversion}

IsRecord(cls) == Classes(cls).kind \in {"Obj", "ObjWithAliases"}

\* no two declared fields of the record type share a wire key
WireKeysDistinct(cls) ==
    LET decl == Classes(cls)
    IN IsRecord(cls) =>
         \A i, j \in 1..Len(decl.fields) :
            i # j => WireName(decl, decl.fields[i].name) # WireName(decl, decl.fields[j].name)

AllWireKeysDistinct(cls) == \A c \in ReachableClasses(cls) : WireKeysDistinct(c)

Steps == 1..Len(trace)
Pairs == 1..(Len(trace) - 1)

-----------------------------------------------------------------------------
\* C1 (as stated): for every instance x of a record or sequence model type built
\* from its declared fields with valid values, x.as_json() succeeds and
\* TYPE.from_json(x.as_json()) succeeds and equals x.
C1_RoundTrip ==
    /\ \A i \in Steps :
         (trace[i].op = "as_json" /\ ValidInstance(trace[i].target.obj, trace[i].arg))
            => trace[i].out.ok
    /\ \A i \in Pairs :
         (/\ trace[i].op = "as_json"
          /\ ValidInstance(trace[i].target.obj, trace[i].arg)
          /\ trace[i + 1].op = "from_json"
          /\ trace[i + 1].target = trace[i].target
          /\ trace[i + 1].arg = trace[i].out.v)
            => trace[i + 1].out.ok /\ trace[i + 1].out.v = trace[i].arg

\* C1 (amended): the same, for model types none of whose record types (the type
\* itself or one nested in it) has two declared fields with the same wire key.
C1_RoundTripDistinctKeys ==
    /\ \A i \in Steps :
         (trace[i].op = "as_json" /\ ValidInstance(trace[i].target.obj, trace[i].arg))
            => trace[i].out.ok
    /\ \A i \in Pairs :
         (/\ trace[i].op = "as_json"
          /\ ValidInstance(trace[i].target.obj, trace[i].arg)
          /\ AllWireKeysDistinct(trace[i].target.obj)
          /\ trace[i + 1].op = "from_json"
          /\ trace[i + 1].target = trace[i].target
          /\ trace[i + 1].arg = trace[i].out.v)
            => trace[i + 1].out.ok /\ trace[i + 1].out.v = trace[i].arg

\* a valid Message holding a nested record and a present null came back equal
C1_Witness ==
    /\ Len(trace) = 2
    /\ trace[1].op = "as_json" /\ trace[1].target = CompoundConv("Message")
    /\ ValidInstance("Message", trace[1].arg)
    /\ trace[1].arg.f["from_"].k = "Jst"
    /\ trace[1].arg.f["text"] = Jst(None)
    /\ trace[2].op = "from_json" /\ trace[2].out.ok
    /\ trace[2].out.v = trace[1].arg

-----------------------------------------------------------------------------
RecordCalls(op) ==
    {i \in Steps : trace[i].op = op /\ trace[i].out.ok /\ IsRecord(trace[i].target.obj)}

MaybeMissingFields(cls) ==
    {Classes(cls).fields[i].name : i \in {i \in 1..Len(Classes(cls).fields) :
                                            maybe_missing_field(Classes(cls).fields[i])}}

\* what the claim says of the MaybeMissing field name of the record call e
PresenceHolds(e, name) ==
    LET decl == Classes(e.target.obj)
        inner == decl.conversion[name]
        key == PyStr(WireName(decl, name))
    IN IF e.op = "as_json"
       THEN LET item == e.arg.f[name]
            IN /\ item = Miss => key \notin DOMAIN e.out.v.m
               /\ item.k = "Jst" => /\ key \in DOMAIN e.out.v.m
                                    /\ e.out.v.m[key] = to_json(inner, item.val).v
       ELSE /\ key \notin DOMAIN e.arg.m => e.out.v.f[name] = Miss
            /\ key \in DOMAIN e.arg.m =>
                  e.out.v.f[name] = Jst(from_json(inner, e.arg.m[key]).v)

\* C2 (as stated): for a record field declared MaybeMissing with conversion inner,
\* as_json leaves the field's key out when the value is Miss and emits it with
\* inner.to_json(v) when the value is Jst(v); from_json yields Miss when the key is
\* not in the input and Jst(inner.from_json(value)) when it is, null included.
C2_Presence ==
    \A op \in {"as_json", "from_json"} : \A i \in RecordCalls(op) :
       \A name \in MaybeMissingFields(trace[i].target.obj) :
          PresenceHolds(trace[i], name)

\* C2 (amended): the same, for a record type no two of whose declared fields have
\* the same wire key.
C2_PresenceDistinctKeys ==
    \A op \in {"as_json", "from_json"} : \A i \in RecordCalls(op) :
       WireKeysDistinct(trace[i].target.obj) =>
          \A name \in MaybeMissingFields(trace[i].target.obj) :
             PresenceHolds(trace[i], name)

\* from_json read a Message whose from_ key is missing and whose text key is null
C2_Witness ==
    /\ Len(trace) = 1
    /\ trace[1].op = "from_json" /\ trace[1].target = CompoundConv("Message")
    /\ trace[1].out.ok
    /\ PyStr("from_") \notin DOMAIN trace[1].arg.m
    /\ PyStr("text") \in DOMAIN trace[1].arg.m /\ trace[1].arg.m[PyStr("text")] = None
    /\ trace[1].out.v.f["from_"] = Miss
    /\ trace[1].out.v.f["text"] = Jst(None)

-----------------------------------------------------------------------------
(* Where a failing conversion fails, found from the outside in: the field  *)
(* names and element indices on the way to the first conversion that       *)
(* fails, a record giving the field name and a sequence "<i>".             *)

Conv(d, c, v) == IF d = "to_json" THEN to_json(c, v) ELSE from_json(c, v)

FirstSuch(n, P(_)) == CHOOSE i \in 1..n : P(i) /\ \A j \in 1..(i - 1) : ~P(j)

RECURSIVE FailSegs(_, _, _), ClsFailSegs(_, _, _)

FailSegs(d, c, v) ==
    CASE c.conv = "CompoundConv" -> ClsFailSegs(d, c.obj, v)
      [] c.conv = "ListConversion" ->
            IF v.k # "list" THEN <<>>
            ELSE LET bad(i) == ~Conv(d, c.f, v.items[i]).ok
                 IN FailSegs(d, c.f, v.items[FirstSuch(Len(v.items), bad)])
      [] c.conv = "MappingConv" ->
            IF v.k # "dict" THEN <<>>
            ELSE LET order == KeyOrder(DOMAIN v.m)
                     keyBad(i) == ~Conv(d, c.key, order[i]).ok
                     strBad(i) == d = "to_json" /\ Conv(d, c.key, order[i]).v.k # "str"
                     valBad(i) == ~Conv(d, c.f, v.m[order[i]]).ok
                     bad(i) == keyBad(i) \/ strBad(i) \/ valBad(i)
                     i == FirstSuch(Len(order), bad)
                 IN IF keyBad(i) THEN FailSegs(d, c.key, order[i])
                    ELSE IF strBad(i) THEN <<>>
                    ELSE FailSegs(d, c.f, v.m[order[i]])
      [] c.conv \in {"ConversionOf", "EnumConversion"} -> <<>>
      [] c.conv = "WithTypeCheck" ->
            IF d = "to_json" /\ ~isinstance(v, c.t) THEN <<>> ELSE FailSegs(d, c.f, v)
      [] c.conv = "WithTypeCheckOnRead" ->
            IF d = "from_json" /\ ~isinstance(v, c.t) THEN <<>> ELSE FailSegs(d, c.f, v)
      [] OTHER -> FailSegs(d, c.f, v)

ClsFailSegs(d, cls, v) ==
    LET decl == Classes(cls)
    IN IF decl.kind = "Arr"
       THEN IF v.k # (IF d = "to_json" THEN "arr" ELSE "list") THEN <<>>
            ELSE LET undeclared == decl.item = NoConversion
                     bad(i) == undeclared \/ ~Conv(d, decl.item, v.items[i]).ok
                     i == FirstSuch(Len(v.items), bad)
                 IN <<"<" \o ToString(i - 1) \o ">">>
                       \o IF undeclared THEN <<>> ELSE FailSegs(d, decl.item, v.items[i])
       ELSE IF v.k # (IF d = "to_json" THEN "inst" ELSE "dict") THEN <<>>
            ELSE LET name(i) == decl.fields[i].name
                     key(i) == PyStr(WireName(decl, name(i)))
                     absent(i) == IF d = "to_json" THEN v.f[name(i)] = Miss
                                  ELSE key(i) \notin DOMAIN v.m
                     held(i) == IF d = "from_json" THEN v.m[key(i)]
                                ELSE IF v.f[name(i)].k = "Jst" THEN v.f[name(i)].val
                                ELSE v.f[name(i)]
                     required(i) == d = "from_json" /\ ~maybe_missing_field(decl.fields[i])
                     undeclared(i) == name(i) \notin DOMAIN decl.conversion
                     bad(i) == IF undeclared(i) THEN TRUE
                               ELSE IF absent(i) THEN required(i)
                               ELSE ~Conv(d, decl.conversion[name(i)], held(i)).ok
                     i == FirstSuch(Len(decl.fields), bad)
                 IN IF undeclared(i) \/ absent(i) THEN <<name(i)>>
                    ELSE <<name(i)>> \o FailSegs(d, decl.conversion[name(i)], held(i))

RECURSIVE JoinDots(_)
JoinDots(segs) ==
    IF Len(segs) = 1 THEN segs[1] ELSE segs[1] \o "." \o JoinDots(Tail(segs))

FailedCalls == {i \in Steps : trace[i].op \in {"as_json", "from_json"} /\ ~trace[i].out.ok}

FailSegsOf(e) ==
    ClsFailSegs(IF e.op = "as_json" THEN "to_json" ELSE "from_json", e.target.obj, e.arg)

\* C3: when a conversion fails at any depth inside nested records and sequences,
\* the outermost as_json / from_json fails with an NvelopeError whose path is the
\* segments from the outermost to the innermost joined by ".", a record giving the
\* field name and a sequence "<i>"; the error carries no message, and its string
\* form is exactly Path: '<path>'.
C3_ErrorPath ==
    \A i \in FailedCalls :
       LET e == trace[i]
           segs == FailSegsOf(e)
       IN segs # <<>> =>
            /\ e.out.exc = "NvelopeError"
            /\ e.out.path = JoinDots(segs)
            /\ e.out.args = <<>>
            /\ NvelopeError_str(e.out) = "Path: '" \o JoinDots(segs) \o "'"

\* parsing {"foo": {"inner_field": "a", "arr_field": [{"xyz": "a"}]}} as a Dummy
\* failed three compounds deep
C3_Witness ==
    /\ Len(trace) = 1
    /\ trace[1].op = "from_json" /\ trace[1].target = CompoundConv("Dummy")
    /\ ~trace[1].out.ok
    /\ FailSegsOf(trace[1]) = <<"foo", "arr_field", "<0>", "xyz">>
    /\ trace[1].out.path = "foo.arr_field.<0>.xyz"
    /\ NvelopeError_str(trace[1].out) = "Path: 'foo.arr_field.<0>.xyz'"

-----------------------------------------------------------------------------
\* the external key the declaration of an aliased record type gives a field
ExternalKey(cls, name) ==
    LET aliases == Classes(cls).alias_to_actual
    IN PyStr(IF name \in DOMAIN aliases THEN aliases[name] ELSE name)

ExternalKeys(cls) == {ExternalKey(cls, n) : n \in FieldNames(Classes(cls))}

ExternalKeysDistinct(cls) ==
    \A m, n \in FieldNames(Classes(cls)) :
       m # n => ExternalKey(cls, m) # ExternalKey(cls, n)

AliasedCalls(op) ==
    {i \in Steps : /\ trace[i].op = op
                   /\ trace[i].out.ok
                   /\ Classes(trace[i].target.obj).kind = "ObjWithAliases"}

\* the JSON value j holds, at every depth, no key its record type does not declare
RECURSIVE OnlyDeclaredKeys(_, _)
OnlyDeclaredKeys(c, j) ==
    CASE c.conv = "CompoundConv" ->
            LET decl == Classes(c.obj)
            IN IF decl.kind = "Arr"
               THEN j.k = "list" =>
                      \A i \in 1..Len(j.items) : OnlyDeclaredKeys(decl.item, j.items[i])
               ELSE j.k = "dict" =>
                      /\ DOMAIN j.m \subseteq
                            {PyStr(WireName(decl, n)) : n \in FieldNames(decl)}
                      /\ \A n \in FieldNames(decl) :
                            PyStr(WireName(decl, n)) \in DOMAIN j.m =>
                               OnlyDeclaredKeys(decl.conversion[n],
                                                j.m[PyStr(WireName(decl, n))])
      [] c.conv = "ListConversion" ->
            j.k = "list" => \A i \in 1..Len(j.items) : OnlyDeclaredKeys(c.f, j.items[i])
      [] c.conv = "MappingConv" ->
            j.k = "dict" => \A key \in DOMAIN j.m : OnlyDeclaredKeys(c.f, j.m[key])
      [] c.conv = "ConversionOf" -> TRUE
      [] OTHER -> OnlyDeclaredKeys(c.f, j)

\* from_json built the field name of the returned instance from the external key
ReadFromExternalKey(e, name) ==
    LET decl == Classes(e.target.obj)
        key == ExternalKey(e.target.obj, name)
        wrapped == maybe_missing_field(decl.fields[CHOOSE i \in 1..Len(decl.fields) :
                                                      decl.fields[i].name = name])
    IN IF key \in DOMAIN e.arg.m
       THEN LET v == from_json(decl.conversion[name], e.arg.m[key]).v
            IN e.out.v.f[name] = IF wrapped THEN Jst(v) ELSE v
       ELSE e.out.v.f[name] = Miss

\* as_json wrote the field name of the instance under the external key
WrittenUnderExternalKey(e, name) ==
    LET decl == Classes(e.target.obj)
        key == ExternalKey(e.target.obj, name)
        item == e.arg.f[name]
    IN item # Miss =>
         /\ key \in DOMAIN e.out.v.m
         /\ e.out.v.m[key] =
               to_json(decl.conversion[name], IF item.k = "Jst" THEN item.val ELSE item).v

\* calls i and i + 1 are from_json(raw) and as_json() on what it returned
WireRoundTripCase(i) ==
    /\ trace[i].op = "from_json" /\ trace[i].out.ok
    /\ Classes(trace[i].target.obj).kind = "ObjWithAliases"
    /\ DOMAIN trace[i].arg.m \subseteq ExternalKeys(trace[i].target.obj)
    /\ OnlyDeclaredKeys(trace[i].target, trace[i].arg)
    /\ trace[i + 1].op = "as_json"
    /\ trace[i + 1].target = trace[i].target
    /\ trace[i + 1].arg = trace[i].out.v

WireRoundTrip(i) == trace[i + 1].out.ok /\ trace[i + 1].out.v = trace[i].arg

-----------------------------------------------------------------------------
Lookups(op) == {i \in Steps : trace[i].op = op}

\* calls i and i + 1 look a name up in one direction and the result in the other
ThereAndBack(i, first, second) ==
    /\ trace[i].op = first /\ trace[i + 1].op = second
    /\ trace[i + 1].target = trace[i].target
    /\ trace[i + 1].arg = trace[i].out.v

Internals(table) == DOMAIN table.alias_to_actual
Externals(table) == {table.alias_to_actual[n] : n \in DOMAIN table.alias_to_actual}

CameBack(i) == trace[i + 1].out.v = trace[i].arg

IdentityOnUnmapped ==
    /\ \A i \in Lookups("aliased") :
          trace[i].arg.s \notin Internals(trace[i].target) => trace[i].out.v = trace[i].arg
    /\ \A i \in Lookups("actual") :
          trace[i].arg.s \notin Externals(trace[i].target) => trace[i].out.v = trace[i].arg

ExternalsDistinct(table) ==
    \A m, n \in Internals(table) :
       m # n => table.alias_to_actual[m] # table.alias_to_actual[n]

-----------------------------------------------------------------------------
OptionalCalls(op) ==
    {i \in Steps : trace[i].op = op /\ trace[i].target.conv = "OptionalConv"}

\* the invocations a call made beyond the called conversion's own
Inner(out) == [out EXCEPT !.log = Tail(@)]

\* C7: for any inner conversion, OptionalConv(inner).to_json(None) is null and
\* OptionalConv(inner).from_json(null) is None, both without invoking inner; for
\* every other value to_json is inner.to_json of it and from_json is inner.from_json
\* of it, the outcome of inner being the outcome of the call.
C7_Optional ==
    /\ \A i \in OptionalCalls("conv.to_json") :
          LET e == trace[i]
          IN IF e.arg = [k |-> "none"]
             THEN e.out.ok /\ e.out.v = [k |-> "none"] /\ Len(e.out.log) = 1
             ELSE Inner(e.out) = to_json(e.target.f, e.arg)
    /\ \A i \in OptionalCalls("conv.from_json") :
          LET e == trace[i]
          IN IF e.arg = [k |-> "none"]
             THEN e.out.ok /\ e.out.v = [k |-> "none"] /\ Len(e.out.log) = 1
             ELSE Inner(e.out) = from_json(e.target.f, e.arg)

\* OptionalConv(CompoundConv(Bar)) returned None for null without entering Bar
C7_Witness ==
    /\ Len(trace) = 2
    /\ trace[1].op = "conv.to_json" /\ trace[1].target = OptionalConv(CompoundConv("Bar"))
    /\ trace[1].arg = None /\ trace[1].out.ok /\ trace[1].out.v = None
    /\ trace[1].out.log = <<Entry("to_json", trace[1].target, None)>>
    /\ trace[2].op = "conv.from_json" /\ trace[2].arg = None /\ trace[2].out.v = None
    /\ trace[2].out.log = <<Entry("from_json", trace[2].target, None)>>

-----------------------------------------------------------------------------
\* the schema() results the callers have read, each with the conversion called
Seen == UNION {{tseen[t][i] : i \in DOMAIN tseen[t]} : t \in Threads}

\* the external names of the declared fields not wrapped in MaybeMissing, in order
RequiredNames(cls) ==
    LET decl == Classes(cls)
        kept == SelectSeq(decl.fields, LAMBDA f : ~maybe_missing_field(f))
    IN [i \in 1..Len(kept) |->
          IF decl.kind = "ObjWithAliases" THEN ExternalKey(cls, kept[i].name)
          ELSE PyStr(kept[i].name)]

\* C4: for every record type, plain or with aliases, schema()["required"] is
\* exactly the list of the external names of the declared fields that are not
\* wrapped in MaybeMissing.
C4_RequiredSet ==
    \A e \in Seen :
       (e.target.conv = "CompoundConv" /\ IsRecord(e.target.obj)) =>
          /\ PyStr("required") \in DOMAIN e.value.m
          /\ e.value.m[PyStr("required")] = PyList(RequiredNames(e.target.obj))

\* the schema the declaration of a conversion gives, before any call was made
DeclaredSchema(c) ==
    LET r == schema(c, InitStore) IN Deref(r.v, InitStore)

\* s with its "type" turned into a list, if it is not one, and one "null" appended
WithNull(s) ==
    LET type == PyStr("type")
    IN IF type \in DOMAIN s.m
       THEN LET items == IF s.m[type].k = "list" THEN s.m[type].items ELSE <<s.m[type]>>
            IN PyDict([key \in DOMAIN s.m |->
                          IF key = type THEN PyList(Append(items, PyStr("null")))
                          ELSE s.m[key]])
       ELSE s

\* C8: OptionalConv(inner).schema() equals inner.schema() with its "type" turned
\* into a list (if it is not one already) followed by exactly one appended "null",
\* all other keys kept; an inner schema without "type" is returned unmodified.
C8_OptionalSchema ==
    \A e \in Seen :
       e.target.conv = "OptionalConv" => e.value = WithNull(DeclaredSchema(e.target.f))

Primitives == {string_conv, int_conv, float_conv, bool_conv}

\* C9: for each primitive conversion, from_json accepts a JSON scalar if and only
\* if the scalar is valid against the conversion's schema(), and returns an
\* accepted value unchanged.
C9_SchemaExact ==
    \A i \in Steps :
       LET e == trace[i]
       IN (e.op = "conv.from_json" /\ e.target \in Primitives /\ JsonScalar(e.arg)) =>
            /\ e.out.ok <=> validate(e.arg, DeclaredSchema(e.target))
            /\ e.out.ok => e.out.v = e.arg

\* C10: any number of schema() calls on a conversion or model type, in any order
\* or interleaving, calls on conversions wrapping the same inner conversion and
\* calls of concurrent callers included, all return equal results.
C10_SchemaPure ==
    \A e1, e2 \in Seen : e1.target = e2.target => e1.value = e2.value

-----------------------------------------------------------------------------
Comparisons == {i \in Steps : trace[i].op = "eq"}

-----------------------------------------------------------------------------
\* the declaration of cls gives a field no conversion or a conversion no field, or
\* gives a sequence type no item conversion
Mismatched(cls) ==
    LET decl == Classes(cls)
    IN IF decl.kind = "Arr" THEN decl.item = NoConversion
       ELSE FieldNames(decl) # DOMAIN decl.conversion

\* C12: declaring a record type whose field names differ from the keys of its
\* conversion map, or a sequence type without an item conversion, raises a
\* configuration error at the declaration, so that no as_json or from_json is
\* ever called on such a type and is the first to show the mismatch.
C12_DefinitionTime ==
    \A i \in Steps :
       /\ (trace[i].op = "declare" /\ Mismatched(trace[i].target.obj)) => ~trace[i].out.ok
       /\ trace[i].op \in {"as_json", "from_json"} => ~Mismatched(trace[i].target.obj)

-----------------------------------------------------------------------------
EnumCalls(op) == {i \in Steps : trace[i].op = op /\ trace[i].target.conv = "EnumConversion"}

EnumValues(enum) == {Enums(enum)[i].value : i \in 1..Len(Enums(enum))}

\* C13: an enumerated conversion over an enumeration whose values share one
\* underlying scalar type has schema {type: integer|string|number, enum: [the
\* underlying values in declaration order]}; from_json of a scalar that is one of
\* the values returns the matching member and of any other scalar fails with an
\* unknown-value error; constructing the conversion over an enumeration whose
\* value type is neither int, str nor float fails at construction.
C13_Enum ==
    /\ \A i \in EnumCalls("conv.schema") :
          LET enum == trace[i].target.enum
              s == trace[i].out.v
          IN /\ DOMAIN s.m = {PyStr("type"), PyStr("enum")}
             /\ s.m[PyStr("type")] =
                   PyStr(CASE Enums(enum)[1].value.k = "int" -> "integer"
                           [] Enums(enum)[1].value.k = "str" -> "string"
                           [] Enums(enum)[1].value.k = "float" -> "number")
             /\ s.m[PyStr("enum")].items = [n \in 1..Len(Enums(enum)) |-> Enums(enum)[n].value]
    /\ \A i \in EnumCalls("conv.from_json") :
          LET enum == trace[i].target.enum
              out == trace[i].out
          IN JsonScalar(trace[i].arg) =>
               IF trace[i].arg \in EnumValues(enum)
               THEN /\ out.ok /\ out.v.k = "member" /\ out.v.enum = enum
                    /\ \E n \in 1..Len(Enums(enum)) :
                          /\ Enums(enum)[n].name = out.v.name
                          /\ Enums(enum)[n].value = trace[i].arg
               ELSE ~out.ok /\ out.exc = "ValueError"
    /\ \A i \in EnumCalls("EnumConversion") :
          trace[i].out.ok <=> Enums(trace[i].target.enum)[1].value.k \in {"int", "str", "float"}

\* EnumConversion(Foo) refused 5 with the unknown-value error
C13_Witness ==
    /\ Len(trace) = 1
    /\ trace[1].op = "conv.from_json" /\ trace[1].target = EnumConv("Foo")
    /\ trace[1].arg = PyInt(5)
    /\ ~trace[1].out.ok /\ trace[1].out.exc = "ValueError"

-----------------------------------------------------------------------------
ConversionCalls ==
    {i \in Steps : trace[i].op \in {"as_json", "from_json", "conv.to_json", "conv.from_json"}}

\* the invocation e is one of a Validated conversion whose JSON value the validator refused
ValidatorRefused(e) ==
    /\ e.c.conv = "Validated"
    /\ IF e.d = "from_json" THEN ~validate(e.a, DeclaredSchema(e.c))
       ELSE /\ to_json(e.c.f, e.a).ok
            /\ ~validate(to_json(e.c.f, e.a).v, DeclaredSchema(e.c))

RefusedCalls ==
    {i \in ConversionCalls :
        \E n \in 1..Len(trace[i].out.log) : ValidatorRefused(trace[i].out.log[n])}

\* C14: when the JSON value of a Validated conversion fails the external validator,
\* the failure that reaches the caller of the outermost to_json / from_json is the
\* validator's own error, not an NvelopeError, wherever the Validated conversion is
\* used, as the conversion of a record field or of a sequence item included.
C14_ValidationAsIs ==
    \A i \in RefusedCalls :
       ~trace[i].out.ok /\ trace[i].out.exc = "ValidationError"

-----------------------------------------------------------------------------
\* from_json calls of record types on an object
RecordReads ==
    {i \in Steps : /\ trace[i].op = "from_json" /\ IsRecord(trace[i].target.obj)
                   /\ trace[i].arg.k = "dict"}

\* the positions of the declared fields not wrapped in MaybeMissing whose external
\* key the object lacks
MissingRequired(cls, parsed) ==
    LET decl == Classes(cls)
    IN {n \in 1..Len(decl.fields) :
          /\ ~maybe_missing_field(decl.fields[n])
          /\ PyStr(WireName(decl, decl.fields[n].name)) \notin DOMAIN parsed.m}

\* the n-th declared field cannot be read from the object
FieldFails(cls, parsed, n) ==
    LET decl == Classes(cls)
        name == decl.fields[n].name
        key == PyStr(WireName(decl, name))
    IN IF name \notin DOMAIN decl.conversion THEN TRUE
       ELSE IF key \notin DOMAIN parsed.m THEN ~maybe_missing_field(decl.fields[n])
       ELSE ~from_json(decl.conversion[name], parsed.m[key]).ok

\* the failure is path-only, at the field name
PathOnlyAt(out, name) ==
    /\ ~out.ok /\ out.exc = "NvelopeError"
    /\ out.path = name /\ out.args = <<>>
    /\ NvelopeError_str(out) = "Path: '" \o name \o "'"

\* C15 (as stated): when from_json is given an object that lacks the external key of
\* a declared field not wrapped in MaybeMissing, the call fails with an NvelopeError
\* whose path is exactly that field's name, with no detail text and the string form
\* Path: '<field>', for plain records and for records with aliases.
C15_MissingRequired ==
    \A i \in RecordReads :
       \A n \in MissingRequired(trace[i].target.obj, trace[i].arg) :
          PathOnlyAt(trace[i].out, Classes(trace[i].target.obj).fields[n].name)

\* C15 (amended): the call fails with an NvelopeError and produces no instance, and
\* the path is exactly that field's name when no field declared before it fails.
C15_MissingRequiredFirst ==
    \A i \in RecordReads :
       LET cls == trace[i].target.obj
       IN \A n \in MissingRequired(cls, trace[i].arg) :
             /\ ~trace[i].out.ok /\ trace[i].out.exc = "NvelopeError"
             /\ (\A m \in 1..(n - 1) : ~FieldFails(cls, trace[i].arg, m))
                   => PathOnlyAt(trace[i].out, Classes(cls).fields[n].name)

\* a Foo was read from an object that has "baz" and lacks "from", the external key
\* of from_
C15_Witness ==
    /\ Len(trace) = 1
    /\ trace[1].op = "from_json" /\ trace[1].target = CompoundConv("Foo")
    /\ trace[1].arg.k = "dict"
    /\ PyStr("from") \notin DOMAIN trace[1].arg.m
    /\ PyStr("baz") \in DOMAIN trace[1].arg.m
    /\ PathOnlyAt(trace[1].out, "from_")

-----------------------------------------------------------------------------
\* v has not the JSON shape the model type cls reads: an object for a record type,
\* an array for a sequence type
ShapeMismatch(cls, v) == v.k # (IF Classes(cls).kind = "Arr" THEN "list" ELSE "dict")

\* the segments leading to the values inside v that a compound would be read from
\* and that have not its shape: a record adds the field name, a sequence "<i>"
RECURSIVE ShapePaths(_, _), ClsShapePaths(_, _)
ShapePaths(c, v) ==
    CASE c.conv = "CompoundConv" -> ClsShapePaths(c.obj, v)
      [] c.conv \in {"ConversionOf", "EnumConversion"} -> {}
      [] c.conv = "OptionalConv" -> IF v = None THEN {} ELSE ShapePaths(c.f, v)
      [] c.conv = "ListConversion" ->
            IF v.k # "list" THEN {}
            ELSE UNION {ShapePaths(c.f, v.items[n]) : n \in 1..Len(v.items)}
      [] c.conv = "MappingConv" ->
            IF v.k # "dict" THEN {}
            ELSE UNION {ShapePaths(c.f, v.m[key]) : key \in DOMAIN v.m}
      [] OTHER -> ShapePaths(c.f, v)

ClsShapePaths(cls, v) ==
    LET decl == Classes(cls)
    IN IF ShapeMismatch(cls, v) THEN {<<>>}
       ELSE IF decl.kind = "Arr"
       THEN IF decl.item = NoConversion THEN {}
            ELSE UNION {{<<"<" \o ToString(n - 1) \o ">">> \o p :
                            p \in ShapePaths(decl.item, v.items[n])} :
                          n \in 1..Len(v.items)}
       ELSE UNION {{<<decl.fields[n].name>> \o p :
                       p \in ShapePaths(decl.conversion[decl.fields[n].name],
                                        v.m[PyStr(WireName(decl, decl.fields[n].name))])} :
                     n \in {n \in 1..Len(decl.fields) :
                              /\ decl.fields[n].name \in DOMAIN decl.conversion
                              /\ PyStr(WireName(decl, decl.fields[n].name)) \in DOMAIN v.m}}

FromJsonCalls == {i \in Steps : trace[i].op = "from_json"}

\* the from_json of a nested compound was handed a value that has not its shape
NestedMismatch(out) ==
    \E n \in 1..Len(out.log) :
       /\ out.log[n].d = "from_json" /\ out.log[n].c.conv = "CompoundConv"
       /\ ShapeMismatch(out.log[n].c.obj, out.log[n].a)

\* C16: from_json of a record type called on a JSON value that is not an object, and
\* of a sequence type called on one that is not an array, fails with a failure that
\* is not an NvelopeError and has no path, and produces no instance; when the
\* from_json of a compound nested in field f or at index i of an enclosing compound
\* meets such a value, the enclosing call fails with an NvelopeError whose path ends
\* at that segment, reached through the segments of the compounds around it.
C16_ShapeMismatch ==
    \A i \in FromJsonCalls :
       LET cls == trace[i].target.obj
           out == trace[i].out
       IN /\ ShapeMismatch(cls, trace[i].arg) =>
                ~out.ok /\ out.exc # "NvelopeError" /\ out.path = ""
          /\ NestedMismatch(out) =>
                /\ ~out.ok /\ out.exc = "NvelopeError"
                /\ \E p \in ClsShapePaths(cls, trace[i].arg) \ {<<>>} :
                      out.path = JoinDots(p)

\* a Dummy was read from {"foo": {"inner_field": "a", "arr_field": 1}}
C16_Witness ==
    /\ Len(trace) = 1
    /\ trace[1].op = "from_json" /\ trace[1].target = CompoundConv("Dummy")
    /\ NestedMismatch(trace[1].out)
    /\ ClsShapePaths("Dummy", trace[1].arg) = {<<"foo", "arr_field">>}
    /\ trace[1].out.path = "foo.arr_field"

-----------------------------------------------------------------------------
\* the schema() results read for model types of the given kinds
SeenOf(kinds) ==
    {e \in Seen : e.target.conv = "CompoundConv" /\ Classes(e.target.obj).kind \in kinds}

\* what the claim says the schema of the record type cls is
RecordSchemaHolds(cls, s) ==
    LET decl == Classes(cls)
        key(n) == PyStr(WireName(decl, decl.fields[n].name))
    IN /\ DOMAIN s.m = {PyStr("type"), PyStr("properties"), PyStr("required")}
       /\ s.m[PyStr("type")] = PyStr("object")
       /\ s.m[PyStr("properties")].k = "dict"
       /\ DOMAIN s.m[PyStr("properties")].m = {key(n) : n \in 1..Len(decl.fields)}
       /\ \A n \in 1..Len(decl.fields) :
             s.m[PyStr("properties")].m[key(n)]
                = DeclaredSchema(decl.conversion[decl.fields[n].name])
       /\ s.m[PyStr("required")].k = "list"
       /\ \A n \in 1..Len(s.m[PyStr("required")].items) :
             s.m[PyStr("required")].items[n] \in DOMAIN s.m[PyStr("properties")].m

\* what the claim says the schema of the sequence type cls is
SequenceSchemaHolds(cls, s) ==
    /\ DOMAIN s.m = {PyStr("type"), PyStr("items")}
    /\ s.m[PyStr("type")] = PyStr("array")
    /\ s.m[PyStr("items")] = DeclaredSchema(Classes(cls).item)

\* C17: for every record type schema() is {type: object, properties: P, required: R},
\* P having exactly one entry per declared field, keyed by the field's external name
\* and valued by its conversion's schema(), and every name in R being a key of P;
\* for every sequence type schema() is {type: array, items: the item conversion's
\* schema}.
C17_SchemaDerivation ==
    /\ \A e \in SeenOf({"Obj", "ObjWithAliases"}) : RecordSchemaHolds(e.target.obj, e.value)
    /\ \A e \in SeenOf({"Arr"}) : SequenceSchemaHolds(e.target.obj, e.value)

-----------------------------------------------------------------------------
MappingCalls(op) == {i \in Steps : trace[i].op = op /\ trace[i].target.conv = "MappingConv"}

\* the keys of the mapping m convert to strings no two of which are equal
KeysToDistinctStrings(c, m) ==
    /\ \A key \in DOMAIN m.m : to_json(c.key, key).ok /\ to_json(c.key, key).v.k = "str"
    /\ \A k1, k2 \in DOMAIN m.m : to_json(c.key, k1).v = to_json(c.key, k2).v => k1 = k2

-----------------------------------------------------------------------------
\* the JSON value v with, at every nesting level, the keys dropped that are not the
\* external name of a declared field of the record type read there
RECURSIVE Strip(_, _), StripCls(_, _)
Strip(c, v) ==
    CASE c.conv = "CompoundConv" -> StripCls(c.obj, v)
      [] c.conv \in {"ConversionOf", "EnumConversion"} -> v
      [] c.conv = "ListConversion" ->
            IF v.k # "list" THEN v
            ELSE PyList([n \in 1..Len(v.items) |-> Strip(c.f, v.items[n])])
      [] c.conv = "MappingConv" ->
            IF v.k # "dict" THEN v
            ELSE PyDict([key \in DOMAIN v.m |-> Strip(c.f, v.m[key])])
      [] OTHER -> Strip(c.f, v)

StripCls(cls, v) ==
    LET decl == Classes(cls)
    IN IF ShapeMismatch(cls, v) THEN v
       ELSE IF decl.kind = "Arr"
       THEN IF decl.item = NoConversion THEN v
            ELSE PyList([n \in 1..Len(v.items) |-> Strip(decl.item, v.items[n])])
       ELSE LET name(key) ==
                   CHOOSE n \in DOMAIN decl.conversion : PyStr(WireName(decl, n)) = key
                declared == {key \in DOMAIN v.m :
                               \E n \in 1..Len(decl.fields) :
                                  /\ decl.fields[n].name \in DOMAIN decl.conversion
                                  /\ PyStr(WireName(decl, decl.fields[n].name)) = key}
            IN PyDict([key \in declared |-> Strip(decl.conversion[name(key)], v.m[key])])

\* C19: for a record type and an input object j whose declared keys hold valid
\* values, from_json(j) succeeds and equals from_json of j without its undeclared
\* keys; from_json(j).as_json() equals j with the undeclared keys removed at every
\* nesting level, so it equals j when j has declared keys only; and as_json never
\* emits a key that is not the external name of a declared field.
C19_UndeclaredDropped ==
    /\ \A i \in RecordReads :
          LET cls == trace[i].target.obj
              stripped == cls_from_json(cls, StripCls(cls, trace[i].arg))
          IN stripped.ok => trace[i].out.ok /\ trace[i].out.v = stripped.v
    /\ \A i \in Pairs :
          (/\ trace[i].op = "from_json" /\ IsRecord(trace[i].target.obj) /\ trace[i].out.ok
           /\ trace[i + 1].op = "as_json" /\ trace[i + 1].target = trace[i].target
           /\ trace[i + 1].arg = trace[i].out.v)
             => /\ trace[i + 1].out.ok
                /\ trace[i + 1].out.v = StripCls(trace[i].target.obj, trace[i].arg)
    /\ \A i \in RecordCalls("as_json") :
          StripCls(trace[i].target.obj, trace[i].out.v) = trace[i].out.v

\* a Dummy was read from an object with an undeclared key beside "foo" and another
\* inside it, and written back without them
C19_Witness ==
    /\ Len(trace) = 2
    /\ trace[1].op = "from_json" /\ trace[1].target = CompoundConv("Dummy")
    /\ trace[1].out.ok
    /\ PyStr("extra") \in DOMAIN trace[1].arg.m
    /\ PyStr("extra") \in DOMAIN trace[1].arg.m[PyStr("foo")].m
    /\ trace[2].op = "as_json" /\ trace[2].out.ok
    /\ trace[2].out.v = StripCls("Dummy", trace[1].arg)
    /\ trace[2].out.v # trace[1].arg

-----------------------------------------------------------------------------
ValidatedCalls(op) == {i \in Steps : trace[i].op = op /\ trace[i].target.conv = "Validated"}

\* the invocations the log shows of the conversion c
Invocations(log, c) == {n \in 1..Len(log) : log[n].c = c}

\* two outcomes that succeed with the same value or fail with the same error
SameResult(a, b) ==
    /\ a.ok = b.ok
    /\ IF a.ok THEN a.v = b.v ELSE a.exc = b.exc /\ a.path = b.path

\* C20: a Validated conversion validates the JSON value against the wrapped
\* conversion's schema() in both directions.  from_json validates its input before it
\* delegates, so the wrapped from_json is never invoked when validation fails;
\* to_json runs the wrapped to_json first and validates its result before returning
\* it, so no JSON value that fails validation is ever returned; when validation
\* passes the result is the wrapped conversion's result.
C20_ValidateOrder ==
    /\ \A i \in ValidatedCalls("conv.from_json") :
          LET c == trace[i].target
              out == trace[i].out
          IN IF validate(trace[i].arg, DeclaredSchema(c.f))
             THEN /\ SameResult(out, from_json(c.f, trace[i].arg))
                  /\ out.log = <<Entry("from_json", c, trace[i].arg)>>
                                  \o from_json(c.f, trace[i].arg).log
             ELSE /\ ~out.ok /\ out.exc = "ValidationError"
                  /\ Invocations(out.log, c.f) = {}
                  /\ out.log = <<Entry("from_json", c, trace[i].arg)>>
    /\ \A i \in ValidatedCalls("conv.to_json") :
          LET c == trace[i].target
              out == trace[i].out
              wrapped == to_json(c.f, trace[i].arg)
          IN /\ out.log = <<Entry("to_json", c, trace[i].arg)>> \o wrapped.log
             /\ out.ok => validate(out.v, DeclaredSchema(c.f))
             /\ IF wrapped.ok /\ ~validate(wrapped.v, DeclaredSchema(c.f))
                THEN ~out.ok /\ out.exc = "ValidationError"
                ELSE SameResult(out, wrapped)

\* Validated(int_conv).from_json(True): the validator refused True, which int_conv
\* alone would have accepted, and int_conv was not invoked
C20_Witness ==
    /\ Len(trace) = 1
    /\ trace[1].op = "conv.from_json" /\ trace[1].target = Validated(int_conv)
    /\ trace[1].arg = PyBool(TRUE)
    /\ from_json(int_conv, PyBool(TRUE)).ok
    /\ trace[1].out.exc = "ValidationError"
    /\ Invocations(trace[1].out.log, int_conv) = {}

-----------------------------------------------------------------------------
\* as_json / from_json calls of model types on a value of the shape the call
\* iterates: an instance of the type, a JSON object for a record, a JSON array
\* for a sequence
CompoundCalls ==
    {i \in Steps :
       /\ trace[i].op \in {"as_json", "from_json"}
       /\ LET decl == Classes(trace[i].target.obj)
              arg == trace[i].arg
          IN IF trace[i].op = "as_json"
             THEN /\ arg.k = (IF decl.kind = "Arr" THEN "arr" ELSE "inst")
                  /\ arg.cls = trace[i].target.obj
             ELSE arg.k = (IF decl.kind = "Arr" THEN "list" ELSE "dict")}

Direction(e) == IF e.op = "as_json" THEN "to_json" ELSE "from_json"

\* the number of fields of the record, or of elements of the sequence
ItemCount(e) ==
    LET decl == Classes(e.target.obj)
    IN IF decl.kind = "Arr" THEN Len(e.arg.items) ELSE Len(decl.fields)

\* the path segment of the n-th field or element
ItemSegment(e, n) ==
    LET decl == Classes(e.target.obj)
    IN IF decl.kind = "Arr" THEN "<" \o ToString(n - 1) \o ">"
       ELSE decl.fields[n].name

\* what converting the n-th field or element does when taken on its own: a field
\* left out (Miss, or an absent key of a MaybeMissing field) converts nothing and
\* does not fail, an absent key of any other field and a field or element without
\* a declared conversion fail before any conversion is invoked
ItemOutcome(e, n) ==
    LET decl == Classes(e.target.obj)
        d == Direction(e)
    IN IF decl.kind = "Arr"
       THEN IF decl.item = NoConversion THEN Raise("AttributeError", "", <<>>)
            ELSE Conv(d, decl.item, e.arg.items[n])
       ELSE LET name == decl.fields[n].name
                key == PyStr(WireName(decl, name))
            IN IF name \notin DOMAIN decl.conversion THEN Raise("KeyError", "", <<>>)
               ELSE IF d = "to_json"
               THEN IF e.arg.f[name] = Miss THEN Ok(None, <<>>)
                    ELSE Conv(d, decl.conversion[name],
                              IF e.arg.f[name].k = "Jst" THEN e.arg.f[name].val
                              ELSE e.arg.f[name])
               ELSE IF key \notin DOMAIN e.arg.m
               THEN IF maybe_missing_field(decl.fields[n]) THEN Ok(None, <<>>)
                    ELSE Raise("KeyError", "", <<>>)
               ELSE Conv(d, decl.conversion[name], e.arg.m[key])

\* the fields or elements that would each fail
WouldFail(e) == {n \in 1..ItemCount(e) : ~ItemOutcome(e, n).ok}

\* the invocations made by converting the first n fields or elements in order
RECURSIVE InvocationsUpTo(_, _)
InvocationsUpTo(e, n) ==
    IF n = 0 THEN <<>> ELSE InvocationsUpTo(e, n - 1) \o ItemOutcome(e, n).log

\* the paths a failure at the n-th field or element can carry: its segment, alone
\* or followed by the path of the failure inside it
PathsAt(e, n) ==
    {ItemSegment(e, n)}
       \cup IF ItemOutcome(e, n).exc = "NvelopeError"
            THEN {ItemSegment(e, n) \o "." \o ItemOutcome(e, n).path}
            ELSE {}

\* C21: when several fields of a record, or several elements of a sequence, would
\* each fail to convert, as_json / from_json fails with an NvelopeError whose path
\* is that of the first failing one in field-declaration order (the lowest index
\* for a sequence), the conversions invoked are exactly those of the fields or
\* elements up to and including that one, none of a later one, and nothing is
\* returned: no partial JSON object or array and no partially built instance.
C21_FailFast ==
    \A i \in CompoundCalls :
       LET e == trace[i]
           failing == WouldFail(e)
       IN Cardinality(failing) >= 2 =>
            LET first == CHOOSE n \in failing : \A m \in failing : n <= m
            IN /\ ~e.out.ok
               /\ e.out.exc = "NvelopeError"
               /\ e.out.path \in PathsAt(e, first)
               /\ \A m \in failing \ {first} : e.out.path \notin PathsAt(e, m)
               /\ e.out.log = InvocationsUpTo(e, first)

\* a Message was read from {"from_": 1, "message_id": "a"}: from_ is not a Bar and
\* message_id is not an int; the failure is at from_, and int_conv was never
\* called on "a"
C21_Witness ==
    /\ Len(trace) = 1
    /\ trace[1].op = "from_json" /\ trace[1].target = CompoundConv("Message")
    /\ trace[1].arg = PyDict(Put(Put(EmptyMap, PyStr("from_"), PyInt(1)),
                                 PyStr("message_id"), PyStr("a")))
    /\ WouldFail(trace[1]) = {1, 3}
    /\ ~trace[1].out.ok
    /\ trace[1].out.path = "from_"
    /\ trace[1].out.log = <<Entry("from_json", CompoundConv("Bar"), PyInt(1))>>
    /\ ~from_json(int_conv, PyStr("a")).ok

=============================================================================
